---------------------------- MODULE Spec2Model ----------------------------
(***************************************************************************)
(* A model of lib/IRGen/Mangle.cpp: the Mangler class and                  *)
(* LinkEntity::mangle.  A mangle request is a pure top-down traversal of   *)
(* the AST; the operators below thread the Mangler object (its output      *)
(* Buffer, its Substitutions and Archetypes maps, its ArchetypesDepth)     *)
(* through that traversal exactly in the order of the C++ code.            *)
(*                                                                         *)
(* Text is a sequence of one-character strings, so that the first and the  *)
(* last byte of an output and its length can be inspected.                 *)
(***************************************************************************)
EXTENDS Integers, Sequences, FiniteSets, TLC

(***************************************************************************)
(* Bounds of the model.                                                    *)
(***************************************************************************)
\* Uncurry levels a request may carry: 0 .. MaxUncurry.
MaxUncurry == 2

\* Function arrows in a chain of curried function types: 1 .. MaxArrows.
MaxArrows == 3

\* 'unsigned' is 32 bits wide (ArchetypeInfo::Depth, ArchetypesDepth,
\* Index::N).  A value is kept as its two's-complement residue: a negative
\* integer r stands for the unsigned value 2^32 + r.  2^32 itself is
\* UnsignedHigh * 10^5 + UnsignedLow.
UnsignedHigh == 42949

UnsignedLow == 67296

None == "<none>"

(***************************************************************************)
(* Text helpers.                                                           *)
(***************************************************************************)
Digits == <<"0", "1", "2", "3", "4", "5", "6", "7", "8", "9">>

DigitSet == {Digits[i] : i \in 1..10}

\* raw_ostream << unsigned: the decimal spelling of n.
RECURSIVE Decimal(_)
Decimal(n) ==
  IF n < 10 THEN <<Digits[n + 1]>>
  ELSE Decimal(n \div 10) \o <<Digits[(n % 10) + 1]>>

\* Five decimal digits of n, 0 <= n < 10^5, with leading zeros.
Pad5(n) ==
  <<Digits[(n \div 10000) + 1], Digits[((n \div 1000) % 10) + 1],
    Digits[((n \div 100) % 10) + 1], Digits[((n \div 10) % 10) + 1],
    Digits[(n % 10) + 1]>>

\* raw_ostream << unsigned, for a value kept as its residue.
DecimalUnsigned(r) ==
  IF r >= 0 THEN Decimal(r)
  ELSE Decimal(UnsignedHigh + ((UnsignedLow + r) \div 100000))
         \o Pad5((UnsignedLow + r) % 100000)

\* Names used by the declarations of the universe.
n_swift == <<"s", "w", "i", "f", "t">>
n_m == <<"m">>
n_Foo == <<"F", "o", "o">>
n_Sub == <<"S", "u", "b">>
n_Int64 == <<"I", "n", "t", "6", "4">>
n_Bool == <<"B", "o", "o", "l">>
n_Float32 == <<"F", "l", "o", "a", "t", "3", "2">>
n_Pair == <<"P", "a", "i", "r">>
n_a == <<"a">>
n_V2 == <<"V", "2">>
n_Box == <<"B", "o", "x">>
n_Cls == <<"C", "l", "s">>
n_NSObj == <<"N", "S", "O", "b", "j">>
n_Opt == <<"O", "p", "t">>
n_P == <<"P">>
n_R == <<"R">>
n_Loc == <<"L", "o", "c">>
n_id == <<"i", "d">>
n_g == <<"g">>
n_lv == <<"l", "v">>
n_add == <<"a", "d", "d">>
n_plusminus == <<"+", "-">>
n_run == <<"r", "u", "n">>
n_puts == <<"p", "u", "t", "s">>
n_count == <<"c", "o", "u", "n", "t">>
n_val == <<"v", "a", "l">>
n_map == <<"m", "a", "p">>
n_some == <<"s", "o", "m", "e">>
n_none == <<"n", "o", "n", "e">>
n_constructor == <<"c", "o", "n", "s", "t", "r", "u", "c", "t", "o", "r">>
n_destructor == <<"d", "e", "s", "t", "r", "u", "c", "t", "o", "r">>
n_subscript == <<"_", "_", "s", "u", "b", "s", "c", "r", "i", "p", "t">>
n_get == <<"_", "_", "g", "e", "t", "t", "e", "r">>
n_set == <<"_", "_", "s", "e", "t", "t", "e", "r">>
n_x == <<"x">>
n_y == <<"y">>
n_foo_impl == <<"f", "o", "o", "_", "i", "m", "p", "l">>
n_run_impl == <<"r", "u", "n", "_", "i", "m", "p", "l">>


(***************************************************************************)
(* The AST handed to the mangler (swift/AST: Identifier, Type, Decl,       *)
(* DeclContext, GenericParamList).  The mangler only reads it.             *)
(***************************************************************************)
Ident(s) == [str |-> s, isOperator |-> FALSE]
OperatorIdent(s) == [str |-> s, isOperator |-> TRUE]

\* TypeKind values that TypeNodes.def declares with SUGARED_TYPE.
SugaredKinds == {"Paren", "NameAlias", "Identifier", "Substituted"}

TBuiltin(k) == [kind |-> k]
TBuiltinInteger(w) == [kind |-> "BuiltinInteger", width |-> w]
TBuiltinFloat(fp) == [kind |-> "BuiltinFloat", fp |-> fp]
TSugar(k, t) == [kind |-> k, underlying |-> t]
TMetaType(t) == [kind |-> "MetaType", instance |-> t]
TLValue(t) == [kind |-> "LValue", object |-> t]
TField(t) == [name |-> <<>>, type |-> t]
TNamedField(n, t) == [name |-> n, type |-> t]
TTuple(fields) == [kind |-> "Tuple", fields |-> fields]
TNominal(k, d) == [kind |-> k, decl |-> d]
TBound(k, d, args) == [kind |-> k, decl |-> d, args |-> args]
TArchetype(a) == [kind |-> "Archetype", archetype |-> a]
TFunction(i, r) == [kind |-> "Function", input |-> i, result |-> r, isBlock |-> FALSE]
TBlock(i, r) == [kind |-> "Function", input |-> i, result |-> r, isBlock |-> TRUE]
TPoly(gp, i, r) ==
  [kind |-> "PolymorphicFunction", params |-> gp, input |-> i, result |-> r,
   isBlock |-> FALSE]
TArray(n, t) == [kind |-> "Array", size |-> n, base |-> t]
TComposition(ps) == [kind |-> "ProtocolComposition", protocols |-> ps]

\* TypeBase::getDesugaredType: strips the sugar at the top of a type.
RECURSIVE getDesugaredType(_)
getDesugaredType(t) ==
  IF t.kind \in SugaredKinds THEN getDesugaredType(t.underlying) ELSE t

\* TypeBase::getCanonicalType: strips the sugar everywhere in a type.
RECURSIVE getCanonicalType(_)
getCanonicalType(t) ==
  LET Each(ts) == [i \in 1..Len(ts) |-> getCanonicalType(ts[i])]
  IN  CASE t.kind \in SugaredKinds -> getCanonicalType(t.underlying)
        [] t.kind = "MetaType" -> TMetaType(getCanonicalType(t.instance))
        [] t.kind = "LValue" -> TLValue(getCanonicalType(t.object))
        [] t.kind = "Tuple" ->
             TTuple([i \in 1..Len(t.fields) |->
                       [t.fields[i] EXCEPT !.type = getCanonicalType(@)]])
        [] t.kind \in {"BoundGenericClass", "BoundGenericOneOf", "BoundGenericStruct"} ->
             [t EXCEPT !.args = Each(@)]
        [] t.kind \in {"Function", "PolymorphicFunction"} ->
             [t EXCEPT !.input = getCanonicalType(@), !.result = getCanonicalType(@)]
        [] t.kind = "Array" -> [t EXCEPT !.base = getCanonicalType(@)]
        [] t.kind = "ProtocolComposition" -> [t EXCEPT !.protocols = Each(@)]
        [] OTHER -> t

\* The types of the universe.
Int64Ty == TNominal("Struct", "Int64")
BoolTy == TNominal("Struct", "Bool")
Float32Ty == TNominal("Struct", "Float32")
PairTy == TNominal("Struct", "Pair")
V2Ty == TNominal("Struct", "V2")
CaTy == TNominal("Struct", "aA")
CbTy == TNominal("Struct", "aB")
ClsTy == TNominal("Class", "Cls")
NSObjTy == TNominal("Class", "NSObj")
OptTy == TNominal("OneOf", "Opt")
PTy == TNominal("Protocol", "P")
RTy == TNominal("Protocol", "R")
LocTy == TNominal("Struct", "Loc")
BoxTy == TNominal("UnboundGeneric", "Box")
BoxOf(t) == TBound("BoundGenericStruct", "Box", <<t>>)
PairAlias == TSugar("NameAlias", PairTy)
IntAlias == TSugar("Paren", TSugar("NameAlias", Int64Ty))
T_Box == TArchetype("T_Box")
T_id == TArchetype("T_id")
U_map == TArchetype("U_map")

\* <T : P> (T) -> T
IdFnTy == TPoly("gp_id", T_id, T_id)

\* Box<T>.map : <T> (Box<T>) -> <U> (U) -> T
MapFnTy == TPoly("gp_Box", BoxOf(T_Box), TPoly("gp_map", U_map, T_Box))

\* (Int64, Int64) -> (Int64) -> Bool
AddFnTy ==
  TFunction(TTuple(<<TField(Int64Ty), TField(Int64Ty)>>), TFunction(Int64Ty, BoolTy))

(***************************************************************************)
(* GenericParamList: getAllArchetypes, getOuterParameters; and             *)
(* ArchetypeType::getConformsTo.                                           *)
(***************************************************************************)
AllGenericParamLists ==
  ("gp_Box" :> [archetypes |-> <<"T_Box">>, outer |-> None]) @@
  ("gp_id" :> [archetypes |-> <<"T_id">>, outer |-> None]) @@
  ("gp_map" :> [archetypes |-> <<"U_map">>, outer |-> "gp_Box"]) @@
  ("gp_two" :> [archetypes |-> <<"A_two", "B_two">>, outer |-> None])

AllConformsTo ==
  ("T_Box" :> <<>>) @@ ("T_id" :> <<"P">>) @@ ("U_map" :> <<"P", "R">>) @@
  ("A_two" :> <<>>) @@ ("B_two" :> <<"R">>)

(***************************************************************************)
(* DeclContext: getContextKind, Module::Name, Module::getParent,           *)
(* ExtensionDecl::getExtendedType, FuncExpr::getDecl,                      *)
(* getGenericParamsOfContext.                                              *)
(***************************************************************************)
Context(k) ==
  [kind |-> k, name |-> <<>>, parent |-> None, decl |-> None,
   extendedType |-> None, isFuncExpr |-> FALSE, genericParams |-> None]

ModuleContext(n, p) == [Context("TranslationUnit") EXCEPT !.name = n, !.parent = p]
NominalContext(d, gp) ==
  [Context("NominalTypeDecl") EXCEPT !.decl = d, !.genericParams = gp]
ExtensionContext(t, gp) ==
  [Context("ExtensionDecl") EXCEPT !.extendedType = t, !.genericParams = gp]
FuncExprContext(d, gp) ==
  [Context("CapturingExpr") EXCEPT !.decl = d, !.isFuncExpr = TRUE,
                                   !.genericParams = gp]

AllDeclContexts ==
  ("swift" :> ModuleContext(n_swift, None)) @@
  ("m" :> ModuleContext(n_m, None)) @@
  ("Foo" :> ModuleContext(n_Foo, None)) @@
  ("Sub" :> ModuleContext(n_Sub, "Foo")) @@
  ("clangA" :> Context("ClangModule")) @@
  ("clangB" :> Context("ClangModule")) @@
  ("topFoo" :> Context("TopLevelCodeDecl")) @@
  ("topM" :> Context("TopLevelCodeDecl")) @@
  ("n_Pair" :> NominalContext("Pair", None)) @@
  ("n_Box" :> NominalContext("Box", "gp_Box")) @@
  ("n_Cls" :> NominalContext("Cls", None)) @@
  ("n_NSObj" :> NominalContext("NSObj", None)) @@
  ("n_Opt" :> NominalContext("Opt", None)) @@
  ("x_Pair" :> ExtensionContext(PairAlias, None)) @@
  ("x_Box" :> ExtensionContext(BoxTy, "gp_Box")) @@
  ("n_V2" :> NominalContext("V2", None)) @@
  ("n_Int64" :> NominalContext("Int64", None)) @@
  ("x_V2" :> ExtensionContext(TSugar("Identifier", V2Ty), None)) @@
  ("x_Int64" :> ExtensionContext(IntAlias, None)) @@
  ("x_Cls" :> ExtensionContext(ClsTy, None)) @@
  ("fe_id" :> FuncExprContext("id", "gp_id")) @@
  ("fe_add" :> FuncExprContext("add", None)) @@
  ("fe_get" :> FuncExprContext("get", None)) @@
  ("fe_set" :> FuncExprContext("set", None)) @@
  ("cd_init" :> [Context("ConstructorDecl") EXCEPT !.decl = "init"]) @@
  ("dd_dtor" :> [Context("DestructorDecl") EXCEPT !.decl = "dtor"])

(***************************************************************************)
(* ValueDecl: getKind, getName, getDeclContext, getType, getAttrs().AsmName,*)
(* getClangDecl, isObjC, FuncDecl::isGetterOrSetter / getGetterDecl /      *)
(* getSetterDecl, OneOfElementDecl::hasArgumentType.                       *)
(***************************************************************************)
Decl(k, n, c, t) ==
  [kind |-> k, name |-> n, ctx |-> c, type |-> t, isObjC |-> FALSE,
   clangDecl |-> None, clangName |-> <<>>, AsmName |-> <<>>,
   isGetterOrSetter |-> FALSE, getterDecl |-> None, setterDecl |-> None,
   hasArgumentType |-> FALSE]

NoArgs == TTuple(<<>>)

AllDecls ==
  ("Int64" :> Decl("Struct", Ident(n_Int64), "swift", None)) @@
  ("Bool" :> Decl("Struct", Ident(n_Bool), "swift", None)) @@
  ("Float32" :> Decl("Struct", Ident(n_Float32), "swift", None)) @@
  ("Pair" :> Decl("Struct", Ident(n_Pair), "swift", None)) @@
  ("V2" :> Decl("Struct", Ident(n_V2), "m", None)) @@
  ("aA" :> [Decl("Struct", Ident(n_a), "clangA", None) EXCEPT !.clangDecl = "Record"]) @@
  ("aB" :> [Decl("Struct", Ident(n_a), "clangB", None) EXCEPT !.clangDecl = "Record"]) @@
  ("Box" :> Decl("Struct", Ident(n_Box), "Foo", None)) @@
  ("Cls" :> Decl("Class", Ident(n_Cls), "Foo", None)) @@
  ("NSObj" :> [Decl("Class", Ident(n_NSObj), "clangA", None)
                 EXCEPT !.clangDecl = "ObjCInterface", !.isObjC = TRUE]) @@
  ("Opt" :> Decl("OneOf", Ident(n_Opt), "Foo", None)) @@
  ("P" :> Decl("Protocol", Ident(n_P), "Foo", None)) @@
  ("R" :> Decl("Protocol", Ident(n_R), "m", None)) @@
  ("Loc" :> Decl("Struct", Ident(n_Loc), "fe_add", None)) @@
  ("id" :> Decl("Func", Ident(n_id), "Foo", IdFnTy)) @@
  ("g" :> Decl("Func", Ident(n_g), "fe_id", TFunction(T_id, Int64Ty))) @@
  ("lv" :> Decl("Var", Ident(n_lv), "fe_id", Int64Ty)) @@
  ("add" :> Decl("Func", Ident(n_add), "Foo", AddFnTy)) @@
  ("pm" :> Decl("Func", OperatorIdent(n_plusminus), "Foo",
                TFunction(TTuple(<<TField(PairTy), TField(PairAlias)>>), PairTy))) @@
  ("run" :> [Decl("Func", Ident(n_run), "n_Cls",
                  TFunction(ClsTy, TFunction(NoArgs, Int64Ty)))
               EXCEPT !.AsmName = n_run_impl]) @@
  ("impl" :> [Decl("Func", Ident(n_g), "m", TFunction(IntAlias, V2Ty))
                EXCEPT !.AsmName = n_foo_impl]) @@
  ("puts" :> [Decl("Func", Ident(n_puts), "clangA", TFunction(Int64Ty, Int64Ty))
                EXCEPT !.clangDecl = "Declarator", !.clangName = n_puts]) @@
  ("cvar" :> [Decl("Var", Ident(n_x), "clangB", Int64Ty)
                EXCEPT !.clangDecl = "Declarator", !.clangName = n_x]) @@
  ("count" :> Decl("Var", Ident(n_count), "Foo", Int64Ty)) @@
  ("subv" :> Decl("Var", Ident(n_x), "Sub", PairTy)) @@
  ("val" :> Decl("Var", Ident(n_val), "n_Box", T_Box)) @@
  ("xval" :> Decl("Var", Ident(n_x), "x_Box", T_Box)) @@
  ("xp" :> Decl("Var", Ident(n_y), "x_Pair", PairAlias)) @@
  ("fld" :> Decl("Var", Ident(n_y), "n_Cls", Float32Ty)) @@
  ("map" :> Decl("Func", Ident(n_map), "n_Box", MapFnTy)) @@
  ("sub" :> Decl("Subscript", Ident(n_subscript), "n_Box", TFunction(Int64Ty, T_Box))) @@
  ("some" :> [Decl("OneOfElement", Ident(n_some), "n_Opt", TFunction(Int64Ty, OptTy))
                EXCEPT !.hasArgumentType = TRUE]) @@
  ("none" :> Decl("OneOfElement", Ident(n_none), "n_Opt", OptTy)) @@
  ("init" :> Decl("Constructor", Ident(n_constructor), "n_Cls", TFunction(Int64Ty, ClsTy))) @@
  ("dtor" :> Decl("Destructor", Ident(n_destructor), "n_Cls", TFunction(ClsTy, NoArgs))) @@
  ("li" :> Decl("Var", Ident(n_x), "cd_init", Int64Ty)) @@
  ("ld" :> Decl("Var", Ident(n_x), "dd_dtor", Int64Ty)) @@
  ("get" :> [Decl("Func", Ident(n_get), "Foo", TFunction(NoArgs, Int64Ty))
               EXCEPT !.isGetterOrSetter = TRUE, !.getterDecl = "count"]) @@
  ("set" :> [Decl("Func", Ident(n_set), "Foo", TFunction(Int64Ty, NoArgs))
               EXCEPT !.isGetterOrSetter = TRUE, !.setterDecl = "count"]) @@
  ("lg" :> Decl("Var", Ident(n_x), "fe_get", Int64Ty)) @@
  ("ls" :> Decl("Var", Ident(n_x), "fe_set", Int64Ty)) @@
  ("t1" :> Decl("Var", Ident(n_x), "topFoo", Int64Ty)) @@
  ("t2" :> Decl("Var", Ident(n_x), "topM", Int64Ty))

(***************************************************************************)
(* The state.  ast is the translation unit the requests are about: the     *)
(* declarations, contexts and generic parameter lists that the Decl* and   *)
(* DeclContext* pointers of the code lead to.  The mangler only reads it.  *)
(***************************************************************************)
VARIABLES
  ast,      \* the declarations and contexts reachable from a LinkEntity
  entity,   \* the LinkEntity of the last mangle request
  buffer,   \* the stream that request wrote
  mangler,  \* the Mangler of that request as LinkEntity::mangle left it
  prior     \* history: an earlier request and what it wrote

vars == <<ast, entity, buffer, mangler, prior>>

GenericParamLists == ast.GenericParamLists
ConformsTo == ast.ConformsTo
DeclContexts == ast.DeclContexts
Decls == ast.Decls

\* cast<ClassDecl>(decl) used as a DeclContext.
AsDeclContext(decl) ==
  CASE decl = "Cls" -> "n_Cls"
    [] decl = "NSObj" -> "n_NSObj"
    [] decl = "Pair" -> "n_Pair"
    [] decl = "Box" -> "n_Box"
    [] decl = "Opt" -> "n_Opt"

NominalKinds == {"Protocol", "Class", "OneOf", "Struct"}
TypeDeclKinds == NominalKinds \cup {"TypeAlias"}

\* The void* keys of Mangler::Substitutions.
ModulePtr(module) == <<"Module", module>>
DeclaredTypePtr(decl) == <<"DeclaredType", decl>>

(***************************************************************************)
(* The Mangler object.  traps and log are history: traps collects the      *)
(* assertions of the code that failed during the request, log the events   *)
(* of the request in order.  Undef is what a read through                  *)
(* Archetypes.end() yields in a build without assertions.                  *)
(***************************************************************************)
\* A Mangler that would start from what the request before it left behind.
ManglerKeepingState(stream, undef) ==
  [Buffer |-> stream, Substitutions |-> mangler.Substitutions,
   Archetypes |-> mangler.Archetypes, ArchetypesDepth |-> mangler.ArchetypesDepth,
   Undef |-> undef, traps |-> {}, log |-> <<>>]

Mangler(stream, undef) ==
  [Buffer |-> stream, Substitutions |-> <<>>, Archetypes |-> <<>>,
   ArchetypesDepth |-> 0, Undef |-> undef, traps |-> {}, log |-> <<>>]

Put(m, s) == [m EXCEPT !.Buffer = @ \o s]
Trap(m, what) == [m EXCEPT !.traps = @ \cup {what}]
Note(m, e) == [m EXCEPT !.log = Append(@, e)]

mangleOperatorChar(op) ==
  CASE op = "&" -> "a"
    [] op = "/" -> "d"
    [] op = "=" -> "e"
    [] op = ">" -> "g"
    [] op = "<" -> "l"
    [] op = "*" -> "m"
    [] op = "!" -> "n"
    [] op = "|" -> "o"
    [] op = "+" -> "p"
    [] op = "%" -> "r"
    [] op = "-" -> "s"
    [] op = "^" -> "x"
    [] op = "~" -> "t"
    [] op = "." -> "z"

isSwiftModule(module) ==
  DeclContexts[module].parent = None /\ DeclContexts[module].name = n_swift

\* operator<<(raw_ostream&, Index) writing the number itself.
IndexUncompressed(n) == DecimalUnsigned(n) \o <<"_">>

\* operator<<(raw_ostream&, Index)
Index(n) == IF n # 0 THEN DecimalUnsigned(n - 1) \o <<"_">> ELSE <<"_">>

mangleIdentifier(m, ident) ==
  LET str == ident.str
      m0 == IF str = <<>> THEN Trap(m, "assert(!str.empty())") ELSE m
  IN  IF ~ident.isOperator
      THEN Put(m0, Decimal(Len(str)) \o str)
      ELSE Put(m0, <<"o", "p">> \o Decimal(Len(str))
                     \o [i \in 1..Len(str) |-> mangleOperatorChar(str[i])])

\* tryMangleSubstitution writing the index itself where the code writes index - 1.
tryMangleSubstitutionPlainIndex(m, ptr) ==
  IF ptr \notin DOMAIN m.Substitutions
  THEN [found |-> FALSE,
        m |-> Note(m, [ev |-> "lookup", ptr |-> ptr, found |-> FALSE,
                       at |-> Len(m.Buffer), to |-> Len(m.Buffer)])]
  ELSE LET out == <<"S">> \o Decimal(m.Substitutions[ptr]) \o <<"_">>
       IN  [found |-> TRUE,
            m |-> Note(Put(m, out),
                       [ev |-> "lookup", ptr |-> ptr, found |-> TRUE,
                        at |-> Len(m.Buffer), to |-> Len(m.Buffer) + Len(out)])]

tryMangleSubstitution(m, ptr) ==
  IF ptr \notin DOMAIN m.Substitutions
  THEN [found |-> FALSE,
        m |-> Note(m, [ev |-> "lookup", ptr |-> ptr, found |-> FALSE,
                       at |-> Len(m.Buffer), to |-> Len(m.Buffer)])]
  ELSE LET index == m.Substitutions[ptr]
           out == <<"S">> \o (IF index # 0 THEN Decimal(index - 1) ELSE <<>>)
                         \o <<"_">>
       IN  [found |-> TRUE,
            m |-> Note(Put(m, out),
                       [ev |-> "lookup", ptr |-> ptr, found |-> TRUE,
                        at |-> Len(m.Buffer), to |-> Len(m.Buffer) + Len(out)])]

\* addSubstitution numbering the entries from 1.
addSubstitutionFromOne(m, ptr) ==
  Note([m EXCEPT !.Substitutions =
                   @ @@ (ptr :> Cardinality(DOMAIN m.Substitutions) + 1)],
       [ev |-> "record", ptr |-> ptr, at |-> Len(m.Buffer),
        before |-> m.Substitutions])

addSubstitution(m, ptr) ==
  Note([m EXCEPT !.Substitutions =
                   @ @@ (ptr :> Cardinality(DOMAIN m.Substitutions))],
       [ev |-> "record", ptr |-> ptr, at |-> Len(m.Buffer),
        before |-> m.Substitutions])

(***************************************************************************)
(* The member functions of Mangler call one another recursively.  Every    *)
(* such call goes through Invoke, which dispatches on the name of the      *)
(* callee: Call_f(...) is the call f(...) of the C++ code.                 *)
(***************************************************************************)
RECURSIVE Invoke(_, _)
Call_mangleContextOf(a, b) == Invoke("mangleContextOf", <<a, b>>)
Call_mangleDeclContext(a, b) == Invoke("mangleDeclContext", <<a, b>>)
Call_mangleGetterOrSetterContext(a, b) == Invoke("mangleGetterOrSetterContext", <<a, b>>)
Call_bindGenericParameters(a, b, c) == Invoke("bindGenericParameters", <<a, b, c>>)
Call_manglePolymorphicType(a, b, c, d, e, f) == Invoke("manglePolymorphicType", <<a, b, c, d, e, f>>)
Call_mangleDeclName(a, b, c) == Invoke("mangleDeclName", <<a, b, c>>)
Call_mangleDeclType(a, b, c, d) == Invoke("mangleDeclType", <<a, b, c, d>>)
Call_mangleType(a, b, c, d) == Invoke("mangleType", <<a, b, c, d>>)
Call_mangleProtocolList(a, b, c) == Invoke("mangleProtocolList", <<a, b, c>>)
Call_mangleProtocolTypeList(a, b, c) == Invoke("mangleProtocolTypeList", <<a, b, c>>)
Call_mangleProtocolName(a, b) == Invoke("mangleProtocolName", <<a, b>>)
Call_mangleNominalType(a, b, c) == Invoke("mangleNominalType", <<a, b, c>>)
Call_mangleFunctionType(a, b, c, d) == Invoke("mangleFunctionType", <<a, b, c, d>>)
Call_mangleEntity(a, b, c, d) == Invoke("mangleEntity", <<a, b, c, d>>)
Call_LinkEntity_mangle(a, b) == Invoke("LinkEntity_mangle", <<a, b>>)

(***************************************************************************)
(* The recursive traversal.  Every operator takes the Mangler and returns  *)
(* it as the C++ member function leaves it.                                *)
(***************************************************************************)
RECURSIVE bindArchetypes(_, _, _, _)
RECURSIVE mangleTupleFields(_, _, _, _)
RECURSIVE mangleGenericArgs(_, _, _)

mangleContextOf(m, decl) ==
  LET D == Decls[decl]
  IN  IF D.kind = "Class" /\ (D.clangDecl # None \/ D.isObjC)
      THEN LET m0 == IF D.clangDecl # None /\ D.clangDecl # "ObjCInterface"
                     THEN Trap(m, "assert(isa<ObjCInterfaceDecl>(clangDecl))")
                     ELSE m
           IN  Put(m0, <<"S", "o">>)
      ELSE Call_mangleDeclContext(m, D.ctx)

\* case DeclContextKind::TranslationUnit
mangleDeclContext_TranslationUnit(m, module) ==
  IF isSwiftModule(module)
  THEN Put(m, <<"S", "s">>)
  ELSE LET try == tryMangleSubstitution(m, ModulePtr(module))
       IN  IF try.found THEN try.m
           ELSE LET parent == DeclContexts[module].parent
                    m1 == IF parent # None THEN Call_mangleDeclContext(try.m, parent)
                          ELSE try.m
                    m2 == mangleIdentifier(m1, Ident(DeclContexts[module].name))
                IN  addSubstitution(m2, ModulePtr(module))

\* case DeclContextKind::ExtensionDecl with a token of its own for the extension.
mangleDeclContext_ExtensionDeclMarked(m, ctx) ==
  Call_mangleType(Put(m, <<"E">>), getCanonicalType(DeclContexts[ctx].extendedType),
                  "Minimal", 0)

\* case DeclContextKind::ExtensionDecl
mangleDeclContext_ExtensionDecl(m, ctx) ==
  Call_mangleType(m, getCanonicalType(DeclContexts[ctx].extendedType), "Minimal", 0)

\* case DeclContextKind::CapturingExpr
mangleDeclContext_CapturingExpr(m, ctx) ==
  LET C == DeclContexts[ctx]
  IN  IF C.isFuncExpr /\ C.decl # None
      THEN IF Decls[C.decl].isGetterOrSetter
           THEN Call_mangleGetterOrSetterContext(m, C.decl)
           ELSE Call_mangleDeclName(m, C.decl, TRUE)
      ELSE Trap(m, "unreachable: unnamed closure mangling not yet implemented")

mangleDeclContext(m, ctx) ==
  LET k == DeclContexts[ctx].kind
  IN  CASE k = "BuiltinModule" ->
             Trap(m, "unreachable: mangling member of builtin module!")
        [] k = "ClangModule" -> m
        [] k = "TranslationUnit" -> mangleDeclContext_TranslationUnit(m, ctx)
        [] k = "NominalTypeDecl" ->
             Call_mangleNominalType(m, DeclContexts[ctx].decl, "Minimal")
        [] k = "ExtensionDecl" -> mangleDeclContext_ExtensionDecl(m, ctx)
        [] k = "CapturingExpr" -> mangleDeclContext_CapturingExpr(m, ctx)
        [] k = "ConstructorDecl" -> Call_mangleDeclName(m, DeclContexts[ctx].decl, TRUE)
        [] k = "DestructorDecl" -> Call_mangleDeclName(m, DeclContexts[ctx].decl, FALSE)
        [] k = "TopLevelCodeDecl" -> m
        [] OTHER -> Trap(m, "unreachable: bad decl context")

mangleGetterOrSetterContext(m, func) ==
  LET F == Decls[func]
      D == IF F.getterDecl # None THEN F.getterDecl ELSE F.setterDecl
      m0 == IF ~F.isGetterOrSetter THEN Trap(m, "assert(func->isGetterOrSetter())")
            ELSE m
      m1 == Call_mangleDeclName(m0, D, FALSE)
      m2 == Call_mangleDeclType(m1, D, "Minimal", 0)
  IN  IF F.getterDecl # None THEN Put(m2, <<"g">>) ELSE Put(m2, <<"s">>)

\* The do-while over getOuterParameters(): one ++ArchetypesDepth per list.
RECURSIVE OuterChainLength(_)
OuterChainLength(genericParams) ==
  IF GenericParamLists[genericParams].outer = None THEN 1
  ELSE 1 + OuterChainLength(GenericParamLists[genericParams].outer)

\* The body of the loop over getAllArchetypes(), for the i-th archetype.
bindArchetypes(m, archetypes, i, mangle) ==
  IF i > Len(archetypes) THEN m
  ELSE LET archetype == archetypes[i]
           info == [Depth |-> m.ArchetypesDepth, Index |-> i - 1]
           m0 == IF archetype \in DOMAIN m.Archetypes
                 THEN Trap(m, "assert(!Archetypes.count(archetype))")
                 ELSE m
           m1 == Note([m0 EXCEPT !.Archetypes = @ @@ (archetype :> info)],
                      [ev |-> "bind", archetype |-> archetype, info |-> info,
                       before |-> m.Archetypes])
           m2 == IF mangle
                 THEN Put(Call_mangleProtocolList(m1, ConformsTo[archetype], 1), <<"_">>)
                 ELSE m1
       IN  bindArchetypes(m2, archetypes, i + 1, mangle)

bindGenericParameters(m, genericParams, mangle) ==
  LET m0 == Note(m, [ev |-> "bindList", params |-> genericParams,
                     depthAtEntry |-> m.ArchetypesDepth])
      m1 == [m0 EXCEPT !.ArchetypesDepth = @ + OuterChainLength(genericParams)]
      m2 == bindArchetypes(m1, GenericParamLists[genericParams].archetypes, 1, mangle)
  IN  IF mangle THEN Put(m2, <<"_">>) ELSE m2

manglePolymorphicType(m, genericParams, T, explosion, uncurryLevel, mangleAsFunction) ==
  LET oldArchetypesDepth == m.ArchetypesDepth
      m1 == Call_bindGenericParameters(m, genericParams, TRUE)
      m2 == IF mangleAsFunction
            THEN Call_mangleFunctionType(m1, T, explosion, uncurryLevel)
            ELSE Call_mangleType(m1, T, explosion, uncurryLevel)
  IN  [m2 EXCEPT !.ArchetypesDepth = oldArchetypesDepth]

mangleDeclName(m, decl, includeType) ==
  LET m1 == Call_mangleContextOf(m, decl)
      m2 == mangleIdentifier(m1, Decls[decl].name)
  IN  IF ~includeType THEN m2
      ELSE Call_mangleDeclType(m2, decl, "Minimal", 0)

\* struct ClassifyDecl: <<mangle the type, bind the context's parameters>>.
ClassifyDecl(decl) ==
  LET k == Decls[decl].kind
  IN  CASE k \in TypeDeclKinds -> <<FALSE, FALSE>>
        [] k \in {"Func", "Constructor", "Destructor"} -> <<TRUE, FALSE>>
        [] k \in {"Var", "Subscript"} -> <<TRUE, TRUE>>
        [] k = "OneOfElement" -> <<TRUE, Decls[decl].hasArgumentType>>

mangleDeclType(m, decl, explosion, uncurryLevel) ==
  LET result == ClassifyDecl(decl)
      oldArchetypesDepth == m.ArchetypesDepth
      genericParams == DeclContexts[Decls[decl].ctx].genericParams
      m1 == IF result[2] /\ genericParams # None
            THEN Call_bindGenericParameters(m, genericParams, FALSE)
            ELSE m
      m2 == IF result[1]
            THEN Call_mangleType(m1, Decls[decl].type, explosion, uncurryLevel)
            ELSE m1
  IN  [m2 EXCEPT !.ArchetypesDepth = oldArchetypesDepth]

\* case TypeKind::BuiltinFloat
mangleType_BuiltinFloat(m, base) ==
  CASE base.fp = "IEEE16" -> Put(m, <<"B", "f", "1", "6", "_">>)
    [] base.fp = "IEEE32" -> Put(m, <<"B", "f", "3", "2", "_">>)
    [] base.fp = "IEEE64" -> Put(m, <<"B", "f", "6", "4", "_">>)
    [] base.fp = "IEEE80" -> Put(m, <<"B", "f", "8", "0", "_">>)
    [] base.fp = "IEEE128" -> Put(m, <<"B", "f", "1", "2", "8", "_">>)
    [] base.fp = "PPC128" -> Trap(m, "unreachable: ppc128 not supported")
    [] OTHER -> Trap(m, "unreachable: bad floating-point kind")

\* SUGARED_TYPE(id, parent) losing the uncurry level on the way through the sugar.
mangleType_SugaredAtLevelZero(m, base, explosion, uncurryLevel) ==
  Call_mangleType(m, getDesugaredType(base), explosion, 0)

\* SUGARED_TYPE(id, parent)
mangleType_Sugared(m, base, explosion, uncurryLevel) ==
  Call_mangleType(m, getDesugaredType(base), explosion, uncurryLevel)

\* The loop over tuple->getFields(), from the i-th field on.
mangleTupleFields(m, fields, i, explosion) ==
  IF i > Len(fields) THEN m
  ELSE LET field == fields[i]
           m1 == IF field.name # <<>> THEN mangleIdentifier(m, Ident(field.name))
                 ELSE m
       IN  mangleTupleFields(Call_mangleType(m1, field.type, explosion, 0),
                             fields, i + 1, explosion)

\* case TypeKind::Tuple
mangleType_Tuple(m, base, explosion) ==
  Put(mangleTupleFields(Put(m, <<"T">>), base.fields, 1, explosion), <<"_">>)

\* The loop over type->getGenericArgs(), from the i-th argument on.
mangleGenericArgs(m, args, i) ==
  IF i > Len(args) THEN m
  ELSE mangleGenericArgs(Call_mangleType(m, args[i], "Minimal", 0), args, i + 1)

\* case TypeKind::BoundGenericClass / BoundGenericOneOf / BoundGenericStruct
mangleType_BoundGeneric(m, base, explosion) ==
  LET m1 == Call_mangleNominalType(Put(m, <<"G">>), base.decl, explosion)
  IN  Put(mangleGenericArgs(m1, base.args, 1), <<"_">>)

\* case TypeKind::PolymorphicFunction
mangleType_PolymorphicFunction(m, fn, explosion, uncurryLevel) ==
  Call_manglePolymorphicType(Put(m, <<"U">>), fn.params, fn, explosion, uncurryLevel, TRUE)

\* case TypeKind::Archetype writing the depth counter itself where the code
\* writes its distance from the depth the archetype was bound at.
mangleType_ArchetypeAbsolute(m, base) ==
  LET archetype == base.archetype
      present == archetype \in DOMAIN m.Archetypes
      info == IF present THEN m.Archetypes[archetype] ELSE m.Undef
      m0 == IF ~present THEN Trap(m, "assert(it != Archetypes.end())") ELSE m
      m1 == IF ~(m.ArchetypesDepth >= info.Depth)
            THEN Trap(m0, "assert(ArchetypesDepth >= info.Depth)")
            ELSE m0
      token == <<"Q">>
               \o (IF m.ArchetypesDepth # 0
                   THEN <<"d">> \o Index(m.ArchetypesDepth - 1)
                   ELSE <<>>)
               \o Index(info.Index)
  IN  Note(Put(m1, token),
           [ev |-> "archetype", archetype |-> archetype, present |-> present,
            info |-> info, depth |-> m.ArchetypesDepth, token |-> token])

\* case TypeKind::Archetype
mangleType_Archetype(m, base) ==
  LET archetype == base.archetype
      present == archetype \in DOMAIN m.Archetypes
      info == IF present THEN m.Archetypes[archetype] ELSE m.Undef
      m0 == IF ~present THEN Trap(m, "assert(it != Archetypes.end())") ELSE m
      m1 == IF ~(m.ArchetypesDepth >= info.Depth)
            THEN Trap(m0, "assert(ArchetypesDepth >= info.Depth)")
            ELSE m0
      relativeDepth == m.ArchetypesDepth - info.Depth
      token == <<"Q">>
               \o (IF relativeDepth # 0 THEN <<"d">> \o Index(relativeDepth - 1)
                   ELSE <<>>)
               \o Index(info.Index)
  IN  Note(Put(m1, token),
           [ev |-> "archetype", archetype |-> archetype, present |-> present,
            info |-> info, depth |-> m.ArchetypesDepth, token |-> token])

\* case TypeKind::ProtocolComposition
mangleType_ProtocolComposition(m, base) ==
  LET protocols == base.protocols
      m0 == IF Len(protocols) = 1 THEN Trap(m, "assert(protocols.size() != 1)")
            ELSE m
  IN  Put(Call_mangleProtocolTypeList(Put(m0, <<"P">>), protocols, 1), <<"_">>)

mangleType(m, type, explosion, uncurryLevel) ==
  LET base == type
      k == base.kind
      out ==
        CASE k = "Error" -> Trap(m, "unreachable: mangling error type")
          [] k \in {"UnstructuredUnresolved", "DeducibleGenericParam"} ->
               Trap(m, "unreachable: mangling unresolved type")
          [] k = "TypeVariable" -> Trap(m, "unreachable: mangling type variable")
          [] k = "Module" -> Trap(m, "unreachable: Cannot mangle module type yet")
          [] k = "BuiltinFloat" -> mangleType_BuiltinFloat(m, base)
          [] k = "BuiltinInteger" ->
               Put(m, <<"B", "i">> \o Decimal(base.width) \o <<"_">>)
          [] k = "BuiltinRawPointer" -> Put(m, <<"B", "p">>)
          [] k = "BuiltinOpaquePointer" -> Put(m, <<"B", "u">>)
          [] k = "BuiltinObjectPointer" -> Put(m, <<"B", "o">>)
          [] k = "BuiltinObjCPointer" -> Put(m, <<"B", "O">>)
          [] k \in SugaredKinds -> mangleType_Sugared(m, base, explosion, uncurryLevel)
          [] k = "MetaType" -> Call_mangleType(Put(m, <<"M">>), base.instance, "Minimal", 0)
          [] k = "LValue" -> Call_mangleType(Put(m, <<"R">>), base.object, "Minimal", 0)
          [] k = "Tuple" -> mangleType_Tuple(m, base, explosion)
          [] k \in {"OneOf", "Protocol", "Struct", "Class", "UnboundGeneric"} ->
               Call_mangleNominalType(m, base.decl, explosion)
          [] k \in {"BoundGenericClass", "BoundGenericOneOf", "BoundGenericStruct"} ->
               mangleType_BoundGeneric(m, base, explosion)
          [] k = "PolymorphicFunction" ->
               mangleType_PolymorphicFunction(m, base, explosion, uncurryLevel)
          [] k = "Archetype" -> mangleType_Archetype(m, base)
          [] k = "Function" -> Call_mangleFunctionType(m, base, explosion, uncurryLevel)
          [] k = "Array" ->
               Call_mangleType(Put(m, <<"A">> \o Decimal(base.size)), base.base, "Minimal", 0)
          [] k = "ProtocolComposition" -> mangleType_ProtocolComposition(m, base)
          [] OTHER -> Trap(m, "unreachable: bad type kind")
  IN  Note(out, [ev |-> "type", from |-> Len(m.Buffer), to |-> Len(out.Buffer)])

\* mangleProtocolList(ArrayRef<ProtocolDecl*>), from the i-th protocol on.
mangleProtocolList(m, protocols, i) ==
  IF i > Len(protocols) THEN m
  ELSE Call_mangleProtocolList(Call_mangleProtocolName(m, protocols[i]), protocols, i + 1)

\* mangleProtocolList(ArrayRef<Type>), from the i-th protocol on.
mangleProtocolTypeList(m, protocols, i) ==
  IF i > Len(protocols) THEN m
  ELSE Call_mangleProtocolTypeList(
         Call_mangleProtocolName(m, getDesugaredType(protocols[i]).decl), protocols, i + 1)

mangleProtocolName(m, protocol) ==
  LET type == DeclaredTypePtr(protocol)
      try == tryMangleSubstitution(m, type)
  IN  IF try.found THEN try.m
      ELSE addSubstitution(Call_mangleDeclName(try.m, protocol, FALSE), type)

getSpecifierForNominalType(decl) ==
  CASE Decls[decl].kind = "Protocol" -> "P"
    [] Decls[decl].kind = "Class" -> "C"
    [] Decls[decl].kind = "OneOf" -> "O"
    [] Decls[decl].kind = "Struct" -> "V"

\* dyn_cast<Module>(decl->getDeclContext())
isModule(ctx) ==
  DeclContexts[ctx].kind \in {"TranslationUnit", "BuiltinModule", "ClangModule"}

tryMangleStandardSubstitution(m, decl) ==
  LET parent == Decls[decl].ctx
      name == Decls[decl].name.str
      Yes(c) == [found |-> TRUE, m |-> Put(m, <<"S", c>>)]
  IN  IF ~isModule(parent) \/ ~isSwiftModule(parent) THEN [found |-> FALSE, m |-> m]
      ELSE CASE name = n_Int64 -> Yes("i")
             [] name = <<"U", "I", "n", "t", "6", "4">> -> Yes("u")
             [] name = n_Bool -> Yes("b")
             [] name = <<"C", "h", "a", "r">> -> Yes("c")
             [] name = <<"F", "l", "o", "a", "t", "6", "4">> -> Yes("d")
             [] name = n_Float32 -> Yes("f")
             [] name = <<"S", "t", "r", "i", "n", "g">> -> Yes("S")
             [] OTHER -> [found |-> FALSE, m |-> m]

mangleNominalType(m, decl, explosion) ==
  LET std == tryMangleStandardSubstitution(m, decl)
      key == DeclaredTypePtr(decl)
      try == tryMangleSubstitution(m, key)
  IN  IF std.found THEN std.m
      ELSE IF try.found THEN try.m
      ELSE addSubstitution(
             Call_mangleDeclName(Put(try.m, <<getSpecifierForNominalType(decl)>>),
                            decl, FALSE),
             key)

\* isBlockFunctionType (GenFunc.h)
isBlockFunctionType(fn) == fn.isBlock

\* mangleFunctionType passing its uncurry level on to the result as it is.
mangleFunctionTypeKeepingLevel(m, fn, explosion, uncurryLevel) ==
  LET m1 == IF isBlockFunctionType(fn) THEN Put(m, <<"b">>)
            ELSE Put(m, <<IF uncurryLevel > 0 THEN "f" ELSE "F">>)
      m2 == Call_mangleType(m1, fn.input, explosion, 0)
  IN  Call_mangleType(m2, fn.result, explosion, uncurryLevel)

mangleFunctionType(m, fn, explosion, uncurryLevel) ==
  LET m1 == IF isBlockFunctionType(fn) THEN Put(m, <<"b">>)
            ELSE Put(m, <<IF uncurryLevel > 0 THEN "f" ELSE "F">>)
      m2 == Call_mangleType(m1, fn.input, explosion, 0)
  IN  Call_mangleType(m2, fn.result, explosion,
                 IF uncurryLevel > 0 THEN uncurryLevel - 1 ELSE 0)

mangleEntity(m, decl, explosion, uncurryLevel) ==
  Call_mangleDeclType(Call_mangleDeclName(m, decl, FALSE), decl, explosion, uncurryLevel)

mangleConstructorKind(kind) ==
  CASE kind = "Allocating" -> "C"
    [] kind = "Initializing" -> "c"

ValueWitnesses ==
  {"AllocateBuffer", "AssignWithCopy", "AssignWithTake", "DeallocateBuffer",
   "Destroy", "DestroyBuffer", "InitializeBufferWithCopyOfBuffer",
   "InitializeBufferWithCopy", "InitializeWithCopy", "InitializeBufferWithTake",
   "InitializeWithTake", "ProjectBuffer"}

mangleValueWitness(witness) ==
  CASE witness = "AllocateBuffer" -> <<"a", "l">>
    [] witness = "AssignWithCopy" -> <<"a", "c">>
    [] witness = "AssignWithTake" -> <<"a", "t">>
    [] witness = "DeallocateBuffer" -> <<"d", "e">>
    [] witness = "Destroy" -> <<"x", "x">>
    [] witness = "DestroyBuffer" -> <<"X", "X">>
    [] witness = "InitializeBufferWithCopyOfBuffer" -> <<"C", "P">>
    [] witness = "InitializeBufferWithCopy" -> <<"C", "p">>
    [] witness = "InitializeWithCopy" -> <<"c", "p">>
    [] witness = "InitializeBufferWithTake" -> <<"T", "k">>
    [] witness = "InitializeWithTake" -> <<"t", "k">>
    [] witness = "ProjectBuffer" -> <<"p", "r">>

mangleDirectness(m, isIndirect) == Put(m, <<IF isIndirect THEN "i" ELSE "d">>)

(***************************************************************************)
(* LinkEntity: getKind, getDecl, getType, getExplosionKind,                *)
(* getUncurryLevel, isLocalLinkage, and the per-kind payload.              *)
(***************************************************************************)
NoType == [kind |-> "<none>"]

LinkEntity(k) ==
  [kind |-> k, decl |-> None, type |-> NoType, explosion |-> "Minimal",
   uncurry |-> 0, isLocalLinkage |-> FALSE, witness |-> None,
   isPattern |-> FALSE, isIndirect |-> FALSE, destructorKind |-> None,
   constructorKind |-> None, anon |-> None]

\* case Kind::Other (and the fallthrough of Kind::Function)
LinkEntity_mangle_Other(e, m) ==
  LET D == Decls[e.decl]
  IN  IF D.clangDecl = "Declarator"
      THEN Put(m, D.clangName)
      ELSE LET m1 == Put(m, <<"_", "T">>)
               m2 == IF e.isLocalLinkage THEN Put(m1, <<"L">>) ELSE m1
           IN  Call_mangleEntity(m2, e.decl, e.explosion, e.uncurry)

\* case Kind::Function without the special case of an external asm name.
LinkEntity_mangle_FunctionMangled(e, m) == LinkEntity_mangle_Other(e, m)

\* case Kind::Function
LinkEntity_mangle_Function(e, m) ==
  IF Decls[e.decl].AsmName # <<>>
  THEN Put(m, Decls[e.decl].AsmName)
  ELSE LinkEntity_mangle_Other(e, m)

\* case Kind::Getter, case Kind::Setter without the marker of local linkage.
LinkEntity_mangle_AccessorUnmarked(e, m, letter) ==
  Put(Call_mangleEntity(Put(m, <<"_", "T">>), e.decl, e.explosion, e.uncurry), <<letter>>)

\* case Kind::Getter, case Kind::Setter
LinkEntity_mangle_Accessor(e, m, letter) ==
  LET m1 == Put(m, <<"_", "T">>)
      m2 == IF e.isLocalLinkage THEN Put(m1, <<"L">>) ELSE m1
  IN  Put(Call_mangleEntity(m2, e.decl, e.explosion, e.uncurry), <<letter>>)

\* case Kind::Destructor
LinkEntity_mangle_Destructor(e, m) ==
  LET m1 == Put(m, <<"_", "T">>)
      m2 == IF e.isLocalLinkage THEN Put(m1, <<"L">>) ELSE m1
      m3 == Call_mangleDeclContext(m2, AsDeclContext(e.decl))
  IN  CASE e.destructorKind = "Deallocating" -> Put(m3, <<"D">>)
        [] e.destructorKind = "Destroying" -> Put(m3, <<"d">>)
        [] OTHER -> Trap(m3, "unreachable: bad destructor kind")

\* case Kind::Constructor
LinkEntity_mangle_Constructor(e, m) ==
  LET m1 == Put(m, <<"_", "T">>)
      m2 == IF e.isLocalLinkage THEN Put(m1, <<"L">>) ELSE m1
      m3 == Call_mangleContextOf(m2, e.decl)
      m4 == Put(m3, <<mangleConstructorKind(e.constructorKind)>>)
  IN  Call_mangleDeclType(m4, e.decl, e.explosion, e.uncurry)

\* case Kind::TypeMetadata
LinkEntity_mangle_TypeMetadata(e, m) ==
  LET m1 == Put(m, <<"_", "T", "M">>)
      m2 == IF e.isPattern THEN Put(m1, <<"P">>) ELSE m1
  IN  Call_mangleType(mangleDirectness(m2, e.isIndirect), e.type, "Minimal", 0)

n_closure == <<"c", "l", "o", "s", "u", "r", "e">>
n_OBJC_CLASS == <<"O", "B", "J", "C", "_", "C", "L", "A", "S", "S", "_", "$", "_">>
n_OBJC_METACLASS ==
  <<"O", "B", "J", "C", "_", "M", "E", "T", "A", "C", "L", "A", "S", "S", "_", "$", "_">>

\* LinkEntity::mangle(raw_ostream &buffer), on the Mangler it constructed.
LinkEntity_mangle(e, m) ==
  LET k == e.kind
  IN  CASE k = "AnonymousFunction" -> Put(m, n_closure)
        [] k = "ValueWitness" ->
             Call_mangleType(Put(m, <<"_", "T", "w">> \o mangleValueWitness(e.witness)),
                        e.type, "Minimal", 0)
        [] k = "ValueWitnessTable" ->
             Call_mangleType(Put(m, <<"_", "T", "W", "V">>), e.type, "Minimal", 0)
        [] k = "TypeMangling" -> Call_mangleType(m, e.type, "Minimal", 0)
        [] k = "TypeMetadata" -> LinkEntity_mangle_TypeMetadata(e, m)
        [] k = "SwiftMetaclassStub" ->
             Call_mangleNominalType(Put(m, <<"_", "T", "M", "m">>), e.decl, "Minimal")
        [] k = "WitnessTableOffset" ->
             Call_mangleEntity(Put(m, <<"_", "T", "W", "o">>), e.decl, e.explosion, e.uncurry)
        [] k = "FieldOffset" ->
             Call_mangleEntity(mangleDirectness(Put(m, <<"_", "T", "W", "v">>), e.isIndirect),
                          e.decl, "Minimal", 0)
        [] k = "BridgeToBlockConverter" ->
             Call_mangleType(Put(m, <<"_", "T", "T", "b">>), e.type, "Minimal", 0)
        [] k = "Destructor" -> LinkEntity_mangle_Destructor(e, m)
        [] k = "Constructor" -> LinkEntity_mangle_Constructor(e, m)
        [] k = "Function" -> LinkEntity_mangle_Function(e, m)
        [] k = "Other" -> LinkEntity_mangle_Other(e, m)
        [] k = "Getter" -> LinkEntity_mangle_Accessor(e, m, "g")
        [] k = "Setter" -> LinkEntity_mangle_Accessor(e, m, "s")
        [] k = "ObjCClass" -> Put(m, n_OBJC_CLASS \o Decls[e.decl].name.str)
        [] k = "ObjCMetaclass" -> Put(m, n_OBJC_METACLASS \o Decls[e.decl].name.str)
        [] OTHER -> Trap(m, "unreachable: bad entity kind!")

Invoke(f, a) ==
  CASE f = "mangleContextOf" -> mangleContextOf(a[1], a[2])
    [] f = "mangleDeclContext" -> mangleDeclContext(a[1], a[2])
    [] f = "mangleGetterOrSetterContext" -> mangleGetterOrSetterContext(a[1], a[2])
    [] f = "bindGenericParameters" -> bindGenericParameters(a[1], a[2], a[3])
    [] f = "manglePolymorphicType" -> manglePolymorphicType(a[1], a[2], a[3], a[4], a[5], a[6])
    [] f = "mangleDeclName" -> mangleDeclName(a[1], a[2], a[3])
    [] f = "mangleDeclType" -> mangleDeclType(a[1], a[2], a[3], a[4])
    [] f = "mangleType" -> mangleType(a[1], a[2], a[3], a[4])
    [] f = "mangleProtocolList" -> mangleProtocolList(a[1], a[2], a[3])
    [] f = "mangleProtocolTypeList" -> mangleProtocolTypeList(a[1], a[2], a[3])
    [] f = "mangleProtocolName" -> mangleProtocolName(a[1], a[2])
    [] f = "mangleNominalType" -> mangleNominalType(a[1], a[2], a[3])
    [] f = "mangleFunctionType" -> mangleFunctionType(a[1], a[2], a[3], a[4])
    [] f = "mangleEntity" -> mangleEntity(a[1], a[2], a[3], a[4])
    [] f = "LinkEntity_mangle" -> LinkEntity_mangle(a[1], a[2])

(***************************************************************************)
(* The requests of one compilation.                                        *)
(***************************************************************************)
Explosions == {"Minimal", "Maximal"}
UncurryLevels == 0..MaxUncurry
DeclsOfKind(ks) == {d \in DOMAIN Decls : Decls[d].kind \in ks}

FunctionTypes ==
  {AddFnTy, IdFnTy, MapFnTy,
   TFunction(PairTy, TFunction(PairAlias, V2Ty)),
   TBlock(Int64Ty, NoArgs),
   TFunction(TBlock(PairTy, PairTy), TFunction(NoArgs, TBlock(V2Ty, IntAlias))),
   TPoly("gp_two", TArchetype("A_two"),
         TTuple(<<TField(TArchetype("B_two")), TField(TArchetype("A_two"))>>)),
   TPoly("gp_two", TArchetype("A_two"),
         TPoly("gp_id", T_id,
               TTuple(<<TField(TArchetype("B_two")), TField(T_id),
                        TField(TArchetype("A_two"))>>)))}

NominalTypes ==
  {Int64Ty, Float32Ty, PairTy, V2Ty, CaTy, CbTy, ClsTy, NSObjTy, OptTy, PTy, RTy,
   LocTy, BoxTy, BoxOf(Int64Ty), BoxOf(PairAlias), BoxOf(BoxOf(V2Ty))}

StructuralTypes ==
  {TBuiltinInteger(64), TBuiltinInteger(1), TBuiltinFloat("IEEE32"),
   TBuiltinFloat("IEEE128"), TBuiltin("BuiltinRawPointer"),
   TBuiltin("BuiltinOpaquePointer"), TBuiltin("BuiltinObjectPointer"),
   TBuiltin("BuiltinObjCPointer"),
   PairAlias, IntAlias, TSugar("Identifier", V2Ty),
   TSugar("Substituted", TTuple(<<TField(PairAlias), TField(PairTy)>>)),
   NoArgs, TTuple(<<TField(PairTy), TField(PairTy)>>),
   TTuple(<<TNamedField(n_x, PairAlias), TNamedField(n_y, V2Ty), TField(PairTy)>>),
   TTuple(<<TField(V2Ty), TField(ClsTy), TField(V2Ty), TField(ClsTy)>>),
   TMetaType(PairTy), TMetaType(TSugar("NameAlias", V2Ty)), TLValue(ClsTy),
   TArray(4, Float32Ty), TArray(12, V2Ty),
   TComposition(<<>>), TComposition(<<PTy, RTy>>),
   TComposition(<<RTy, TSugar("NameAlias", PTy), RTy>>),
   TTuple(<<TField(PTy), TField(TComposition(<<PTy, RTy>>))>>),
   TTuple(<<TField(V2Ty), TField(RTy), TField(V2Ty)>>)}

Types == FunctionTypes \cup NominalTypes \cup StructuralTypes

\* The types value witnesses are requested for.
WitnessTypes == {PairTy, BoxOf(Int64Ty), TTuple(<<TField(PairTy), TField(PairTy)>>)}

AnonymousFunctions == {"anon1", "anon2"}

NoRequest == [entity |-> LinkEntity("<none>"), buffer |-> <<>>, between |-> FALSE]

\* What a read through Archetypes.end() may yield.
UndefInfos == {[Depth |-> 0, Index |-> 0], [Depth |-> 5, Index |-> 1]}

\* The members of the Mangler object.
Members(m) ==
  [Substitutions |-> m.Substitutions, Archetypes |-> m.Archetypes,
   ArchetypesDepth |-> m.ArchetypesDepth, traps |-> m.traps, log |-> m.log]

Init ==
  /\ ast = [GenericParamLists |-> AllGenericParamLists, ConformsTo |-> AllConformsTo,
            DeclContexts |-> AllDeclContexts, Decls |-> AllDecls]
  /\ entity = LinkEntity("<none>")
  /\ buffer = <<>>
  /\ mangler = [Substitutions |-> <<>>, Archetypes |-> <<>>, ArchetypesDepth |-> 0,
                traps |-> {}, log |-> <<>>]
  /\ prior = NoRequest

\* The Manglers LinkEntity::mangle may end with.  The value read through
\* Archetypes.end() is any of UndefInfos; it matters only to a run that reads it.
Outcomes(e) ==
  LET m == Call_LinkEntity_mangle(e, Mangler(<<>>, [Depth |-> 0, Index |-> 0]))
  IN  IF "assert(it != Archetypes.end())" \in m.traps
      THEN {Call_LinkEntity_mangle(e, Mangler(<<>>, undef)) : undef \in UndefInfos}
      ELSE {m}

\* What one call leaves behind.
Deliver(e, m) ==
  /\ entity' = e
  /\ buffer' = m.Buffer
  /\ mangler' = Members(m)
  /\ UNCHANGED ast

\* One call of LinkEntity::mangle(SmallVectorImpl<char> &buffer).
Request(e) == \E m \in Outcomes(e) : Deliver(e, m)

\* A request that is not remembered.
Serve(e) == Request(e) /\ UNCHANGED prior

MangleAnonymousFunction ==
  \E a \in AnonymousFunctions :
    Serve([LinkEntity("AnonymousFunction") EXCEPT !.anon = a])

MangleValueWitness ==
  \E w \in ValueWitnesses, t \in WitnessTypes :
    Serve([LinkEntity("ValueWitness") EXCEPT !.witness = w, !.type = t])

MangleValueWitnessTable ==
  \E t \in Types : Serve([LinkEntity("ValueWitnessTable") EXCEPT !.type = t])

MangleTypeMangling ==
  \E t \in Types : Serve([LinkEntity("TypeMangling") EXCEPT !.type = t])

MangleTypeMetadata ==
  \E t \in NominalTypes, p \in BOOLEAN, i \in BOOLEAN :
    Serve([LinkEntity("TypeMetadata")
               EXCEPT !.type = t, !.isPattern = p, !.isIndirect = i])

MangleSwiftMetaclassStub ==
  \E d \in DeclsOfKind({"Class"}) :
    Serve([LinkEntity("SwiftMetaclassStub") EXCEPT !.decl = d])

MangleWitnessTableOffset ==
  \E d \in {"run", "init"}, x \in Explosions, u \in UncurryLevels :
    Serve([LinkEntity("WitnessTableOffset")
               EXCEPT !.decl = d, !.explosion = x, !.uncurry = u])

MangleFieldOffset ==
  \E d \in {"val", "fld", "xval"}, i \in BOOLEAN :
    Serve([LinkEntity("FieldOffset") EXCEPT !.decl = d, !.isIndirect = i])

MangleBridgeToBlockConverter ==
  \E t \in FunctionTypes :
    Serve([LinkEntity("BridgeToBlockConverter") EXCEPT !.type = t])

MangleDestructor ==
  \E d \in DeclsOfKind({"Class"}), k \in {"Deallocating", "Destroying"}, l \in BOOLEAN :
    Serve([LinkEntity("Destructor")
               EXCEPT !.decl = d, !.destructorKind = k, !.isLocalLinkage = l])

MangleConstructor ==
  \E d \in DeclsOfKind({"Constructor"}), k \in {"Allocating", "Initializing"},
     x \in Explosions, u \in UncurryLevels, l \in BOOLEAN :
    Serve([LinkEntity("Constructor")
               EXCEPT !.decl = d, !.constructorKind = k, !.explosion = x,
                      !.uncurry = u, !.isLocalLinkage = l])

MangleFunction ==
  \E d \in DeclsOfKind({"Func"}), x \in Explosions, u \in UncurryLevels, l \in BOOLEAN :
    Serve([LinkEntity("Function")
               EXCEPT !.decl = d, !.explosion = x, !.uncurry = u,
                      !.isLocalLinkage = l])

MangleOther ==
  \E d \in DeclsOfKind({"Var", "OneOfElement"}), x \in Explosions, l \in BOOLEAN :
    Serve([LinkEntity("Other")
               EXCEPT !.decl = d, !.explosion = x, !.isLocalLinkage = l])

MangleGetter ==
  \E d \in {"count", "val", "sub"}, x \in Explosions, u \in UncurryLevels, l \in BOOLEAN :
    Serve([LinkEntity("Getter")
               EXCEPT !.decl = d, !.explosion = x, !.uncurry = u,
                      !.isLocalLinkage = l])

MangleSetter ==
  \E d \in {"count", "val", "sub"}, x \in Explosions, u \in UncurryLevels, l \in BOOLEAN :
    Serve([LinkEntity("Setter")
               EXCEPT !.decl = d, !.explosion = x, !.uncurry = u,
                      !.isLocalLinkage = l])

MangleObjCClass ==
  \E d \in DeclsOfKind({"Class"}) : Serve([LinkEntity("ObjCClass") EXCEPT !.decl = d])

MangleObjCMetaclass ==
  \E d \in DeclsOfKind({"Class"}) :
    Serve([LinkEntity("ObjCMetaclass") EXCEPT !.decl = d])

Next ==
  \/ MangleAnonymousFunction
  \/ MangleValueWitness
  \/ MangleValueWitnessTable
  \/ MangleTypeMangling
  \/ MangleTypeMetadata
  \/ MangleSwiftMetaclassStub
  \/ MangleWitnessTableOffset
  \/ MangleFieldOffset
  \/ MangleBridgeToBlockConverter
  \/ MangleDestructor
  \/ MangleConstructor
  \/ MangleFunction
  \/ MangleOther
  \/ MangleGetter
  \/ MangleSetter
  \/ MangleObjCClass
  \/ MangleObjCMetaclass


Spec == Init /\ [][Next]_vars

(***************************************************************************)
(* A compilation as a sequence of requests, one of which is remembered.    *)
(* The requests are drawn from SequenceEntities so that every pair of      *)
(* them is met.                                                            *)
(***************************************************************************)
FunctionEntity(d, x, u) ==
  [LinkEntity("Function") EXCEPT !.decl = d, !.explosion = x, !.uncurry = u]
OtherEntity(d) == [LinkEntity("Other") EXCEPT !.decl = d]
TypeEntity(k, t) == [LinkEntity(k) EXCEPT !.type = t]

SequenceEntities ==
  {[LinkEntity("AnonymousFunction") EXCEPT !.anon = a] : a \in AnonymousFunctions}
  \cup {FunctionEntity("add", x, u) : x \in Explosions, u \in UncurryLevels}
  \cup {FunctionEntity(d, "Minimal", 0) : d \in {"id", "g", "map", "run", "pm"}}
  \cup {OtherEntity(d) : d \in {"t1", "t2", "val", "xval", "subv", "lv"}}
  \cup {TypeEntity("TypeMetadata", t) : t \in {CaTy, CbTy, PairTy}}
  \cup {TypeEntity("TypeMangling", t) :
          t \in {PairTy, PairAlias, TTuple(<<TField(PairTy), TField(PairTy)>>),
                 TTuple(<<TField(V2Ty), TField(ClsTy), TField(V2Ty), TField(ClsTy)>>)}}
  \cup {TypeEntity("ValueWitnessTable", BoxOf(BoxOf(V2Ty))),
        [LinkEntity("WitnessTableOffset") EXCEPT !.decl = "run"],
        [LinkEntity("Getter") EXCEPT !.decl = "val"],
        [LinkEntity("Destructor") EXCEPT !.decl = "Cls", !.destructorKind = "Destroying"],
        [LinkEntity("Constructor") EXCEPT !.decl = "init",
                                          !.constructorKind = "Allocating"]}

\* A request of the compilation.  Either the request before it is remembered
\* (with what it wrote), or the remembered one stays and that request lies
\* between it and the new one.
MangleInSequence ==
  \E e \in SequenceEntities, remember \in BOOLEAN :
    /\ Request(e)
    /\ prior' = IF entity.kind = "<none>" THEN prior
                ELSE IF remember
                THEN [entity |-> entity, buffer |-> buffer, between |-> FALSE]
                ELSE IF prior.entity.kind = "<none>" THEN prior
                ELSE [prior EXCEPT !.between = TRUE]

SpecSeq == Init /\ [][MangleInSequence]_vars

(***************************************************************************)
(* Properties of a sequence of requests (SpecSeq): prior is a request made *)
(* earlier in the compilation, entity the present one.                     *)
(***************************************************************************)
Remembered == prior.entity.kind # "<none>"

\* The type an entity is about, as the canonical type; NoType when it has none.
EntityType(e) == IF e.type = NoType THEN NoType ELSE getCanonicalType(e.type)

\* Two requests for one declaration and one kind that differ in the
\* explosion kind or in the uncurry level, and in nothing else.
DifferInExplosionOrUncurry(a, b) ==
  /\ a.decl # None
  /\ a # b
  /\ [a EXCEPT !.explosion = b.explosion, !.uncurry = b.uncurry] = b

\* C1: two requests for one declaration and one entity kind that differ in
\* the explosion kind or in the uncurry level write different strings.
C1_UniquePerExplosionAndUncurry ==
  (Remembered /\ DifferInExplosionOrUncurry(prior.entity, entity))
    => prior.buffer # buffer

\* Two entities that are not the same thing: another kind, another
\* declaration, another anonymous function or another type.
DistinctEntities(a, b) ==
  \/ a.kind # b.kind
  \/ a.decl # b.decl
  \/ a.anon # b.anon
  \/ EntityType(a) # EntityType(b)

\* C2: injectivity: two distinct entities of one compilation are mangled to
\* different strings.
C2_Injective ==
  (Remembered /\ DistinctEntities(prior.entity, entity)) => prior.buffer # buffer

\* C3: determinism: the same entity (with its explosion kind and uncurry
\* level) requested twice is written with the same bytes, whatever was
\* requested before or in between.
C3_Deterministic ==
  (Remembered /\ prior.entity = entity) => prior.buffer = buffer

\* C3 happens: a generic method is mangled a second time, with another request
\* between the two, and its mangling filled the substitution table.
C3_Witness ==
  /\ Remembered
  /\ prior.between
  /\ prior.entity = entity
  /\ entity.kind = "Function"
  /\ entity.decl = "map"
  /\ prior.buffer = buffer
  /\ Cardinality(DOMAIN mangler.Substitutions) >= 2
  /\ DOMAIN mangler.Archetypes # {}

(***************************************************************************)
(* Properties of one request (Spec): buffer is what the request wrote and  *)
(* mangler.log the events of the request in order.                         *)
(***************************************************************************)
EventsOf(kind) == {i \in DOMAIN mangler.log : mangler.log[i].ev = kind}

StartsWithDigitOrUnderscore(s) == s # <<>> /\ (s[1] \in DigitSet \/ s[1] = "_")
EndsWithDigit(s) == s # <<>> /\ s[Len(s)] \in DigitSet

\* What the i-th event, a call of mangleType, wrote.
TypeMangling(i) == SubSeq(buffer, mangler.log[i].from + 1, mangler.log[i].to)

\* C4: the output of a completed request, and what every call of mangleType
\* wrote, never begins with a decimal digit or '_' and never ends with a
\* decimal digit.
C4_WellFormed ==
  (entity.kind # "<none>" /\ mangler.traps = {}) =>
    /\ ~StartsWithDigitOrUnderscore(buffer)
    /\ ~EndsWithDigit(buffer)
    /\ \A i \in EventsOf("type") :
         /\ ~StartsWithDigitOrUnderscore(TypeMangling(i))
         /\ ~EndsWithDigit(TypeMangling(i))

\* The lookups that found their identity in the table and wrote a back-reference.
BackReferences == {i \in EventsOf("lookup") : mangler.log[i].found}
BackReference(i) == SubSeq(buffer, mangler.log[i].at + 1, mangler.log[i].to)

\* Lookup k missed the identity that event j recorded: the full spelling of
\* the identity lies between the two.
FirstOccurrence(k, j) ==
  /\ k \in EventsOf("lookup")
  /\ j \in EventsOf("record")
  /\ k < j
  /\ ~mangler.log[k].found
  /\ mangler.log[k].ptr = mangler.log[j].ptr
FullSpelling(k, j) == SubSeq(buffer, mangler.log[k].at + 1, mangler.log[j].at)
IndexGiven(j) == Cardinality(DOMAIN mangler.log[j].before)

SpelledName(ptr) ==
  LET name == IF ptr[1] = "Module" THEN DeclContexts[ptr[2]].name
              ELSE Decls[ptr[2]].name.str
  IN  Decimal(Len(name)) \o name
EndsWith(s, t) == Len(t) <= Len(s) /\ SubSeq(s, Len(s) - Len(t) + 1, Len(s)) = t

\* C6: the substitution table is append-only within a request.  An identity
\* is recorded once, after a lookup that missed it and after its spelling,
\* which begins at that lookup and ends with its own name; it gets the number
\* of entries recorded before it as its index and keeps that index to the end
\* of the request; every back-reference names, by that index, an identity
\* recorded before it whose spelling lies before it in the output.
C6_SubstitutionsAppendOnly ==
  /\ \A j \in EventsOf("record") :
       LET r == mangler.log[j]
           earlier == {i \in EventsOf("record") : i < j}
       IN  /\ r.ptr \notin DOMAIN r.before
           /\ IndexGiven(j) = Cardinality(earlier)
           /\ \A i \in earlier :
                /\ mangler.log[i].ptr \in DOMAIN r.before
                /\ r.before[mangler.log[i].ptr] = IndexGiven(i)
           /\ r.ptr \in DOMAIN mangler.Substitutions
           /\ mangler.Substitutions[r.ptr] = IndexGiven(j)
           /\ \E k \in DOMAIN mangler.log :
                /\ FirstOccurrence(k, j)
                /\ mangler.log[k].at < r.at
                /\ EndsWith(FullSpelling(k, j), SpelledName(r.ptr))
  /\ Cardinality(DOMAIN mangler.Substitutions) = Cardinality(EventsOf("record"))
  /\ \A i \in BackReferences :
       \E j \in EventsOf("record") :
         /\ j < i
         /\ mangler.log[j].ptr = mangler.log[i].ptr
         /\ mangler.log[j].at <= mangler.log[i].at
         /\ BackReference(i) = <<"S">> \o Index(IndexGiven(j))

\* C6 happens: four identities are recorded, one of them a nominal type
\* nested in a module that is recorded during its spelling, and a
\* back-reference names an identity whose index is not 0.
C6_Witness ==
  /\ Cardinality(EventsOf("record")) >= 4
  /\ \E k \in DOMAIN mangler.log, j \in DOMAIN mangler.log, n \in DOMAIN mangler.log :
       /\ FirstOccurrence(k, j)
       /\ k < n /\ n < j
       /\ n \in EventsOf("record")
       /\ mangler.log[n].ptr[1] = "Module"
       /\ mangler.log[j].ptr[1] = "DeclaredType"
  /\ \E i \in BackReferences :
       /\ mangler.log[i].ptr[1] = "DeclaredType"
       /\ mangler.Substitutions[mangler.log[i].ptr] >= 1

(***************************************************************************)
(* Properties of mangleType in the middle of a request: the substitution   *)
(* table, the archetype map and the depth counter are those a request left *)
(* behind, the buffer holds what it wrote.                                 *)
(***************************************************************************)
MidRequest(undef) ==
  [Buffer |-> buffer, Substitutions |-> mangler.Substitutions,
   Archetypes |-> mangler.Archetypes, ArchetypesDepth |-> mangler.ArchetypesDepth,
   Undef |-> undef, traps |-> {}, log |-> <<>>]

\* The bytes written and the state of the mangler, without the ghost log.
SameOutcome(a, b) ==
  /\ a.Buffer = b.Buffer
  /\ a.Substitutions = b.Substitutions
  /\ a.Archetypes = b.Archetypes
  /\ a.ArchetypesDepth = b.ArchetypesDepth
  /\ a.traps = b.traps

\* Types wrapped in sugar: one alias, a chain of aliases, sugar around
\* nominal, tuple, function, generic and archetype types, and sugar inside.
AliasProbes ==
  {PairAlias, IntAlias, TSugar("Identifier", V2Ty),
   TSugar("Paren", TSugar("NameAlias", TSugar("Substituted", ClsTy))),
   TSugar("Substituted", TTuple(<<TField(PairAlias), TField(PairTy)>>)),
   TSugar("NameAlias", AddFnTy), TSugar("Paren", IdFnTy),
   TSugar("NameAlias", TFunction(PairTy, TFunction(PairAlias, V2Ty))),
   TSugar("NameAlias", BoxOf(PairAlias)), TSugar("Substituted", T_Box)}

\* C7: alias transparency.  In every state of the substitution table and of
\* the archetype bindings, at every explosion kind and uncurry level,
\* mangleType on a type wrapped in sugar writes the same bytes and leaves the
\* same mangler state as on its desugared type, and as on its canonical type.
C7_AliasTransparent ==
  \A t \in AliasProbes, x \in Explosions, u \in UncurryLevels, undef \in UndefInfos :
    LET sugared == Call_mangleType(MidRequest(undef), t, x, u)
    IN  /\ SameOutcome(sugared,
                       Call_mangleType(MidRequest(undef), getDesugaredType(t), x, u))
        /\ SameOutcome(sugared,
                       Call_mangleType(MidRequest(undef), getCanonicalType(t), x, u))

\* C7 happens: the request mangled a type wrapped in sugar and filled the
\* substitution table, and in that state a sugared type is written with a
\* back-reference, as its desugared type is.
C7_Witness ==
  /\ entity.kind = "TypeMangling"
  /\ entity.type.kind \in SugaredKinds
  /\ DOMAIN mangler.Substitutions # {}
  /\ \E t \in AliasProbes :
       LET out == Call_mangleType(MidRequest([Depth |-> 0, Index |-> 0]), t, "Minimal", 1)
       IN  /\ \E i \in DOMAIN out.log : out.log[i].ev = "lookup" /\ out.log[i].found
           /\ getDesugaredType(t).kind = "Function"
           /\ out.Buffer = Call_mangleType(MidRequest([Depth |-> 0, Index |-> 0]),
                                           getDesugaredType(t), "Minimal", 1).Buffer

(***************************************************************************)
(* Properties of the archetype references of one request (Spec).           *)
(***************************************************************************)
ArchetypeReferences == EventsOf("archetype")
RelativeDepth(i) == mangler.log[i].depth - mangler.log[i].info.Depth

\* C8: the token written for an archetype reference depends only on the
\* depth counter minus the depth recorded for the archetype, and on its
\* index: it is 'Q', then 'd' and the difference less one when the
\* difference is not 0, then the index; two references with the same
\* difference and the same index are written with the same token.
C8_DepthRelative ==
  \A i \in ArchetypeReferences :
    /\ mangler.log[i].token =
         <<"Q">> \o (IF RelativeDepth(i) # 0
                     THEN <<"d">> \o Index(RelativeDepth(i) - 1) ELSE <<>>)
                 \o Index(mangler.log[i].info.Index)
    /\ \A j \in ArchetypeReferences :
         (/\ RelativeDepth(i) = RelativeDepth(j)
          /\ mangler.log[i].info.Index = mangler.log[j].info.Index)
           => mangler.log[i].token = mangler.log[j].token

\* C8 happens: one request refers to two archetypes bound at different
\* depths, each at the depth it was bound at, and to an archetype bound at a
\* lower depth than the reference is made at.
C8_Witness ==
  /\ \E i \in ArchetypeReferences, j \in ArchetypeReferences :
       /\ mangler.log[i].present /\ mangler.log[j].present
       /\ mangler.log[i].archetype # mangler.log[j].archetype
       /\ mangler.log[i].depth # mangler.log[j].depth
       /\ RelativeDepth(i) = RelativeDepth(j)
       /\ mangler.log[i].info.Index = mangler.log[j].info.Index
       /\ mangler.log[i].token = mangler.log[j].token
  /\ \E i \in ArchetypeReferences : mangler.log[i].present /\ RelativeDepth(i) > 0

\* C9: wherever an archetype reference is written the archetype is in the
\* archetype map and the depth recorded for it is at most the depth counter:
\* neither assertion of the Archetype case fails.
C9_ArchetypeAssertionsHold ==
  /\ \A i \in ArchetypeReferences :
       /\ mangler.log[i].present
       /\ mangler.log[i].info.Depth <= mangler.log[i].depth
  /\ "assert(it != Archetypes.end())" \notin mangler.traps
  /\ "assert(ArchetypesDepth >= info.Depth)" \notin mangler.traps

\* C10: an entity whose declaration has a non-empty AsmName is written as
\* that name and nothing else, whatever its kind.
C10_OverrideBypassesEveryKind ==
  (entity.decl # None /\ Decls[entity.decl].AsmName # <<>>)
    => buffer = Decls[entity.decl].AsmName

\* C10 as the code has it: the AsmName is written, and nothing else is done,
\* for an entity of Kind::Function only; every other kind of entity for such
\* a declaration is mangled as usual, beginning with "_T".
C10_FunctionOverrideBypass ==
  (entity.decl # None /\ Decls[entity.decl].AsmName # <<>>)
    => IF entity.kind = "Function"
       THEN /\ buffer = Decls[entity.decl].AsmName
            /\ mangler.Substitutions = <<>>
            /\ mangler.log = <<>>
       ELSE /\ buffer # Decls[entity.decl].AsmName
            /\ Len(buffer) > 2
            /\ SubSeq(buffer, 1, 2) = <<"_", "T">>

\* C10 happens: a method with an AsmName is requested as a function of local
\* linkage at the maximal explosion kind, and only the name is written.
C10_Witness ==
  /\ entity.kind = "Function"
  /\ entity.decl = "run"
  /\ entity.isLocalLinkage
  /\ entity.explosion = "Maximal"
  /\ buffer = n_run_impl

(***************************************************************************)
(* Properties of the contexts, in the middle of a request.                 *)
(***************************************************************************)
\* An extension and the declaration context of the nominal type it extends.
ExtensionPairs ==
  {<<"x_Pair", "n_Pair">>, <<"x_Box", "n_Box">>, <<"x_V2", "n_V2">>,
   <<"x_Int64", "n_Int64">>, <<"x_Cls", "n_Cls">>}

\* A member declared in an extension and a member declared in the type itself.
MemberPairs == {<<"xval", "val">>, <<"xval", "map">>, <<"xval", "sub">>}

\* C11: extension transparency.  In every state of the substitution table,
\* mangling an extension as a context, or the context of a member declared
\* in an extension, writes the same bytes and leaves the same mangler state
\* as mangling the nominal type it extends, or the context of a member
\* declared in the type itself.
C11_ExtensionTransparent ==
  /\ \A p \in ExtensionPairs, undef \in UndefInfos :
       SameOutcome(Call_mangleDeclContext(MidRequest(undef), p[1]),
                   Call_mangleDeclContext(MidRequest(undef), p[2]))
  /\ \A p \in MemberPairs, undef \in UndefInfos :
       SameOutcome(Call_mangleContextOf(MidRequest(undef), p[1]),
                   Call_mangleContextOf(MidRequest(undef), p[2]))

\* C11 happens: the request was for a member declared in an extension of a
\* generic type and recorded the type; in the state it left, one extension is
\* written as a back-reference and another is spelled and recorded.
C11_Witness ==
  /\ entity.decl = "xval"
  /\ DeclaredTypePtr("Box") \in DOMAIN mangler.Substitutions
  /\ LET zero == [Depth |-> 0, Index |-> 0]
         again == Call_mangleDeclContext(MidRequest(zero), "x_Box")
         fresh == Call_mangleDeclContext(MidRequest(zero), "x_V2")
     IN  /\ \E i \in DOMAIN again.log : again.log[i].ev = "lookup" /\ again.log[i].found
         /\ again.Buffer = Call_mangleDeclContext(MidRequest(zero), "n_Box").Buffer
         /\ DeclaredTypePtr("V2") \in DOMAIN fresh.Substitutions
         /\ DeclaredTypePtr("V2") \notin DOMAIN mangler.Substitutions

(***************************************************************************)
(* Properties of the prefix of the output of one request (Spec).           *)
(***************************************************************************)
\* The two cases that write a name and return: an AsmName, a Clang declarator.
Bypass(e) ==
  /\ e.kind \in {"Function", "Other"}
  /\ \/ e.kind = "Function" /\ Decls[e.decl].AsmName # <<>>
     \/ Decls[e.decl].clangDecl = "Declarator"

\* What a request for e writes.
Mangled(e) == Call_LinkEntity_mangle(e, Mangler(<<>>, [Depth |-> 0, Index |-> 0])).Buffer

\* The kinds whose case tests isLocalLinkage(), and the kinds that write a
\* marker of their own after "_T".
LocalMarkerKinds == {"Destructor", "Constructor", "Function", "Other", "Getter", "Setter"}
GlobalMarkers ==
  ("ValueWitness" :> <<"_", "T", "w">>) @@ ("ValueWitnessTable" :> <<"_", "T", "W", "V">>) @@
  ("TypeMetadata" :> <<"_", "T", "M">>) @@ ("SwiftMetaclassStub" :> <<"_", "T", "M", "m">>) @@
  ("WitnessTableOffset" :> <<"_", "T", "W", "o">>) @@
  ("FieldOffset" :> <<"_", "T", "W", "v">>) @@
  ("BridgeToBlockConverter" :> <<"_", "T", "T", "b">>)

\* C12: off the two bypasses, the output of a request for an entity of any
\* kind begins with "_T", and 'L' follows exactly when the entity has local
\* linkage.
C12_EveryKindMarked ==
  (entity.kind # "<none>" /\ ~Bypass(entity)) =>
    /\ Len(buffer) > 2
    /\ SubSeq(buffer, 1, 2) = <<"_", "T">>
    /\ buffer[3] = "L" <=> entity.isLocalLinkage

\* C12 as the code has it.  A destructor, constructor, function, other
\* declaration, getter or setter off the bypasses is written as "_T", then
\* 'L' exactly when it has local linkage, then its production, which is the
\* same with and without local linkage and does not begin with 'L'.  A value
\* witness, value witness table, type metadata, metaclass stub, witness table
\* offset, field offset or block converter is written as "_T" and the marker
\* of its kind, with no 'L' whatever its linkage.  A type mangling, an
\* anonymous function and an Objective-C class or metaclass reference do not
\* begin with "_T".
C12_MarkersByKind ==
  (entity.kind # "<none>" /\ ~Bypass(entity)) =>
    LET plain == Mangled([entity EXCEPT !.isLocalLinkage = FALSE])
        local == Mangled([entity EXCEPT !.isLocalLinkage = TRUE])
    IN  CASE entity.kind \in LocalMarkerKinds ->
               /\ Len(plain) > 2
               /\ SubSeq(plain, 1, 2) = <<"_", "T">>
               /\ plain[3] # "L"
               /\ local = <<"_", "T", "L">> \o SubSeq(plain, 3, Len(plain))
               /\ buffer = IF entity.isLocalLinkage THEN local ELSE plain
          [] entity.kind \in DOMAIN GlobalMarkers ->
               /\ Len(buffer) > Len(GlobalMarkers[entity.kind])
               /\ SubSeq(buffer, 1, Len(GlobalMarkers[entity.kind]))
                    = GlobalMarkers[entity.kind]
               /\ local = buffer /\ plain = buffer
          [] OTHER ->
               /\ buffer # <<>>
               /\ buffer[1] # "_"
               /\ local = buffer /\ plain = buffer

\* C12 happens: the setter of a property of a generic type is requested with
\* local linkage and is written with "_TL" before its production.
C12_Witness ==
  /\ entity.kind = "Setter"
  /\ entity.decl = "val"
  /\ entity.isLocalLinkage
  /\ SubSeq(buffer, 1, 3) = <<"_", "T", "L">>
  /\ buffer[Len(buffer)] = "s"

(***************************************************************************)
(* Properties of the generic bindings of one request (Spec).               *)
(***************************************************************************)
Bindings == EventsOf("bind")

\* The generic parameter list an archetype belongs to, and its place in it.
ListOf(archetype) ==
  CHOOSE g \in DOMAIN GenericParamLists :
    \E n \in DOMAIN GenericParamLists[g].archetypes :
      GenericParamLists[g].archetypes[n] = archetype
PositionOf(archetype) ==
  CHOOSE n \in DOMAIN GenericParamLists[ListOf(archetype)].archetypes :
    GenericParamLists[ListOf(archetype)].archetypes[n] = archetype

\* C13: bindGenericParameters records for every parameter of the list the
\* number of lists in the chain of outer parameter lists, the list itself
\* included, as its depth and its place in the list, counted from 0, as its
\* index, whatever the depth counter is when it is called.
C13_DepthIsChainLength ==
  \A i \in Bindings :
    /\ mangler.log[i].info.Depth = OuterChainLength(ListOf(mangler.log[i].archetype))
    /\ mangler.log[i].info.Index = PositionOf(mangler.log[i].archetype) - 1

\* The declarations whose type mangleDeclType is called on, and the
\* polymorphic function types manglePolymorphicType is called on.
GenericDecls == {"id", "map", "val", "xval", "sub"}
PolymorphicTypes == {t \in FunctionTypes : t.kind = "PolymorphicFunction"}

\* C14: when manglePolymorphicType or mangleDeclType returns, the depth
\* counter and the archetype map are what they were when it was called: a
\* request for the mangling of a polymorphic function type ends with the
\* empty map and depth 0 it began with, and so does a call in the middle of
\* a request.
C14_BindingStateRestored ==
  /\ (entity.kind = "TypeMangling" /\ entity.type.kind = "PolymorphicFunction")
       => /\ mangler.ArchetypesDepth = 0
          /\ mangler.Archetypes = <<>>
  /\ \A x \in Explosions, u \in UncurryLevels, undef \in UndefInfos :
       /\ \A d \in GenericDecls :
            LET out == Call_mangleDeclType(MidRequest(undef), d, x, u)
            IN  /\ out.ArchetypesDepth = mangler.ArchetypesDepth
                /\ out.Archetypes = mangler.Archetypes
       /\ \A t \in PolymorphicTypes :
            LET out == Call_manglePolymorphicType(MidRequest(undef), t.params, t, x, u, TRUE)
            IN  /\ out.ArchetypesDepth = mangler.ArchetypesDepth
                /\ out.Archetypes = mangler.Archetypes

\* The compact index grammar: 0 is the terminator alone, v > 0 is v - 1 in
\* decimal and the terminator.
Compact(v) == IF v = 0 THEN <<"_">> ELSE Decimal(v - 1) \o <<"_">>

\* The references to a bound archetype from a depth not below its own.
SoundReferences ==
  {i \in ArchetypeReferences : mangler.log[i].present /\ RelativeDepth(i) >= 0}

\* C15: a reference with depth delta d and index i is written as 'Q' when
\* d = 0 and as 'Qd' when d > 0, the delta (when d > 0) and the index each in
\* the compact index grammar.
C15_DeltaInCompactGrammar ==
  \A i \in SoundReferences :
    mangler.log[i].token =
      <<"Q">> \o (IF RelativeDepth(i) = 0 THEN <<>>
                  ELSE <<"d">> \o Compact(RelativeDepth(i)))
              \o Compact(mangler.log[i].info.Index)

\* C15 as the code has it: after 'Qd' it is the delta less one that is
\* written in the compact index grammar, so delta 1 is "Qd_" and delta 2 is
\* "Qd0_"; the index follows in the compact index grammar.  The token is
\* what the call of mangleType wrote to the output.
C15_DeltaLessOneInCompactGrammar ==
  \A i \in SoundReferences :
    /\ mangler.log[i].token =
         (IF RelativeDepth(i) = 0 THEN <<"Q">>
          ELSE <<"Q", "d">> \o Compact(RelativeDepth(i) - 1))
         \o Compact(mangler.log[i].info.Index)
    /\ i + 1 \in EventsOf("type")
    /\ TypeMangling(i + 1) = mangler.log[i].token

\* C15 happens: one request refers to an archetype of index 1 at delta 1
\* ("Qd_0_"), to one at delta 0 ("Q_") and to one of index 0 at delta 1.
C15_Witness ==
  /\ \E i \in SoundReferences :
       /\ RelativeDepth(i) = 1
       /\ mangler.log[i].info.Index = 1
       /\ mangler.log[i].token = <<"Q", "d", "_", "0", "_">>
  /\ \E i \in SoundReferences :
       RelativeDepth(i) = 0 /\ mangler.log[i].token = <<"Q", "_">>
  /\ \E i \in SoundReferences :
       RelativeDepth(i) = 1 /\ mangler.log[i].token = <<"Q", "d", "_", "_">>

(***************************************************************************)
(* Properties of mangleFunctionType on chains of function arrows.          *)
(***************************************************************************)
\* Which arrows of a chain are blocks: blocks[j] for the j-th arrow.
BlockPatterns == UNION {[1..k -> BOOLEAN] : k \in 1..MaxArrows}

\* The argument of the j-th arrow: Int64, or a function type of its own.
ChainArgument(j) == IF j % 2 = 1 THEN Int64Ty ELSE TFunction(Int64Ty, Int64Ty)
ChainArgumentSpelled(j) ==
  IF j % 2 = 1 THEN <<"S", "i">> ELSE <<"F", "S", "i", "S", "i">>

\* The chain from its j-th arrow on; the last result is Int64.
RECURSIVE ArrowChain(_, _)
ArrowChain(blocks, j) ==
  IF j > Len(blocks) THEN Int64Ty
  ELSE IF blocks[j] THEN TBlock(ChainArgument(j), ArrowChain(blocks, j + 1))
  ELSE TFunction(ChainArgument(j), ArrowChain(blocks, j + 1))

\* The letter of the j-th arrow of a chain mangled at uncurry level n: the
\* level that reaches it is n - (j - 1), or 0 when that is negative.
ArrowLetter(blocks, j, n) ==
  IF blocks[j] THEN "b" ELSE IF n - (j - 1) > 0 THEN "f" ELSE "F"

RECURSIVE ChainSpelled(_, _, _)
ChainSpelled(blocks, j, n) ==
  IF j > Len(blocks) THEN <<"S", "i">>
  ELSE <<ArrowLetter(blocks, j, n)>> \o ChainArgumentSpelled(j)
         \o ChainSpelled(blocks, j + 1, n)

\* C16: in a chain of function arrows mangled at uncurry level n, a block
\* arrow is written 'b' whatever the level, another arrow 'f' when the level
\* that reaches it is above 0 and 'F' when it is 0; the level of a result is
\* the level less one, or 0; arguments are mangled at level 0.  Without
\* blocks the first min(n, k) of k arrows are 'f' and the others 'F'.
C16_ArrowLetters ==
  \A blocks \in BlockPatterns, n \in UncurryLevels, x \in Explosions :
    LET out == Call_mangleType(MidRequest([Depth |-> 0, Index |-> 0]),
                               ArrowChain(blocks, 1), x, n)
    IN  /\ out.Buffer = buffer \o ChainSpelled(blocks, 1, n)
        /\ out.traps = {}
        /\ (\A j \in DOMAIN blocks : ~blocks[j]) =>
             \A j \in DOMAIN blocks :
               out.Buffer[Len(buffer) + 1
                          + 3 * (j - 1) + 3 * ((j - 1) \div 2)]
                 = IF j <= n THEN "f" ELSE "F"

\* C16 happens: func add : (Int64, Int64) -> (Int64) -> Bool is requested at
\* uncurry level 1; its first arrow is written 'f' and its second 'F'.
C16_Witness ==
  /\ entity.kind = "Function"
  /\ entity.decl = "add"
  /\ entity.uncurry = 1
  /\ Len(buffer) = 22
  /\ buffer[11] = "f"
  /\ buffer[18] = "F"

\* C17: within a request no archetype is bound twice: whenever
\* bindGenericParameters registers a parameter the archetype is not in the
\* archetype map, and its assertion does not fail.
C17_NoArchetypeBoundTwice ==
  /\ \A i \in Bindings : mangler.log[i].archetype \notin DOMAIN mangler.log[i].before
  /\ "assert(!Archetypes.count(archetype))" \notin mangler.traps

=============================================================================
